---------------------------- MODULE Spec2Model ----------------------------
(***************************************************************************)
(* A model of the chat backend: the WebSocket streaming endpoint and its   *)
(* connection manager (api/chat.py), the request-response endpoint, the    *)
(* conversation store (db/mongo.py), the frame serialisation               *)
(* (core/streaming.py) and the Supervisor agent with the agent registry    *)
(* (agents/supervisor.py, agents/base.py).                                 *)
(*                                                                         *)
(* Text is a sequence of characters, so that concatenation is real         *)
(* concatenation.  Exception texts are plain strings.                      *)
(***************************************************************************)
EXTENDS Integers, Sequences, FiniteSets, TLC

VARIABLES
    store,      \* db.conversations: conversation id -> document, or NoDoc
    registry,   \* manager.active_connections: conversation id -> <<socket, user>>, or <<>>
    ws,         \* one websocket_chat handler per connection: its locals and position
    frames,     \* per connection: the frames delivered to the client, in order
    http,       \* one send_message (POST) request per slot: its response
    tempFiles,  \* the temp directory: the file ids that exist
    agents,     \* agent_registry._agents: name -> agent, or None
    sup,        \* one SupervisorAgent.execute call: its locals, position and call log
    llm,        \* LLMClientFactory._clients, the configured provider, the calls made
    regs,       \* the agents given to agent_registry.register so far, in order
    slr,        \* one run of stream_llm_response: its input, position and output
    merge,      \* one run of merge_streams: producers, queue, consumer, output
    captcha,    \* captcha_generator._storage, the clock, the verify calls made
    disk        \* the temp directory by file name, the uploads answered, the last process_file

vars == <<store, registry, ws, frames, http, tempFiles, agents, sup, llm, regs, slr, merge,
          captcha, disk>>

chatVars == <<store, registry, ws, frames, http, tempFiles>>
supVars == <<agents, sup>>

-----------------------------------------------------------------------------
(* Bounds *)

\* the longest fragment sequence one responder stream produces
MaxFrags == 2
\* the number of exchanges the connections process, all together
MaxExchanges == 2
\* the deepest nesting of Supervisor.execute inside itself that is followed
MaxDepth == 2

None == "None"
NoField == "NoField"

Users == {"u1", "u2"}
ConvIds == {"c1", "c2"}
Sockets == {"s1", "s2"}
Requests == {"r1", "r2"}
FileIds == {"f1", "f2"}

\* text: the empty string, the fragments a responder yields, a user's input
EmptyText == <<>>
FragText == <<"a", "b", "c", "d">>
\* the fragments a responder stream can yield after it has yielded `produced`:
\* the k-th fragment of a stream is the k-th letter, so that no two
\* fragments of one stream are equal
Frags(produced) == { <<FragText[((Len(produced)) % Len(FragText)) + 1]>> }
Contents == {<<"q">>}
AttachmentLists == {<<>>, <<"f1">>, <<"f1", "f2">>}
\* the attachment lists of the messages sent to the chat endpoints
WsAttachmentLists == {<<"f1">>}

\* str(e) of the exceptions a responder stream raises
UpstreamErrors == {"upstream failed", ""}
StoreError == "store failed"
SendError == "send after disconnect"

-----------------------------------------------------------------------------
(* Credentials: core/auth.py and get_user_from_token *)

\* a token is what jwt.decode makes of it: whether signature and expiry
\* verify, and the "sub" of its payload
Tokens ==
    { [valid |-> TRUE, sub |-> "u1"], [valid |-> TRUE, sub |-> "u2"],
      [valid |-> FALSE, sub |-> "u1"], [valid |-> TRUE, sub |-> None],
      [valid |-> TRUE, sub |-> "ghost"] }

\* the payload, or None (none |-> TRUE) on jwt.PyJWTError
decode_access_token(token) ==
    IF token.valid THEN [none |-> FALSE, sub |-> token.sub] ELSE [none |-> TRUE]

\* db.users.find_one({"id": user_id})
get_user_by_id(user_id) ==
    IF user_id \in Users THEN user_id ELSE None

\* the user, or the HTTPException raised
get_user_from_token(token) ==
    LET payload == decode_access_token(token) IN
    IF payload.none
    THEN [raised |-> TRUE, status |-> 401, detail |-> "Invalid token"]
    ELSE IF payload.sub = None
    THEN [raised |-> TRUE, status |-> 401, detail |-> "Invalid token"]
    ELSE IF get_user_by_id(payload.sub) = None
    THEN [raised |-> TRUE, status |-> 401, detail |-> "User not found"]
    ELSE [raised |-> FALSE, id |-> payload.sub]

\* the documents of the users collection: u2 was banned by an
\* administrator after its token was issued, u1 is in good standing
UserDocs ==
    [u \in Users |-> [id |-> u, is_active |-> TRUE, is_banned |-> (u = "u2")]]

\* core/dependencies.py get_current_user: the user, or the HTTPException
get_current_user(token) ==
    LET payload == decode_access_token(token) IN
    IF payload.none
    THEN [raised |-> TRUE, status |-> 401, detail |-> "Could not validate credentials"]
    ELSE IF payload.sub = None
    THEN [raised |-> TRUE, status |-> 401, detail |-> "Could not validate credentials"]
    ELSE IF get_user_by_id(payload.sub) = None
    THEN [raised |-> TRUE, status |-> 401, detail |-> "Could not validate credentials"]
    ELSE IF UserDocs[payload.sub].is_banned
    THEN [raised |-> TRUE, status |-> 403, detail |-> "Account has been banned"]
    ELSE IF ~UserDocs[payload.sub].is_active
    THEN [raised |-> TRUE, status |-> 403, detail |-> "Account is inactive"]
    ELSE [raised |-> FALSE, id |-> payload.sub]

-----------------------------------------------------------------------------
(* The conversation store: db/mongo.py *)

\* Python's None where a document is expected
NoDoc == [none |-> TRUE]

\* get_conversation_for_user with a fault: the owner is not part of the query
get_conversation_any_owner(st, conv_id, user_id) ==
    IF ~st[conv_id].none THEN st[conv_id] ELSE NoDoc

\* find_one({"id": conv_id, "user_id": user_id})
get_conversation_for_user(st, conv_id, user_id) ==
    IF ~st[conv_id].none /\ st[conv_id].user_id = user_id
    THEN st[conv_id]
    ELSE NoDoc

\* str(uuid4()) for the n-th message of a conversation: fresh, and never a
\* frame's message_id
MessageUuid(conv_id, n) == <<"msg", conv_id, n>>

\* the store after add_message_to_conversation: update_one with $push on
\* the document matching id and user_id, nothing when none matches
add_message_to_conversation(st, conv_id, user_id, role, content, attachments) ==
    IF get_conversation_for_user(st, conv_id, user_id).none
    THEN st
    ELSE [st EXCEPT ![conv_id].messages =
            Append(@, [id |-> MessageUuid(conv_id, Len(@) + 1),
                       role |-> role,
                       content |-> content,
                       attachments |-> attachments])]

\* {"role": msg["role"], "content": msg["content"]} for each message
RoleContent(msgs) ==
    [i \in 1..Len(msgs) |-> [role |-> msgs[i].role, content |-> msgs[i].content]]

-----------------------------------------------------------------------------
(* Frames: core/streaming.py StreamChunk.to_json and the literal frames *)

\* to_json with a fault: done is always false
to_json_never_done(content, done, message_id, error) ==
    [content |-> content, done |-> FALSE, message_id |-> message_id,
     error |-> IF error = None \/ error = "" THEN NoField ELSE error]

\* to_json: the error key is present only when error is truthy
to_json(content, done, message_id, error) ==
    [content |-> content, done |-> done, message_id |-> message_id,
     error |-> IF error = None \/ error = "" THEN NoField ELSE error]

\* ConnectErrorFrame with a fault: the frame is not terminal
ConnectErrorFrameNotDone(text) ==
    [content |-> EmptyText, done |-> FALSE, message_id |-> <<>>, error |-> text]

\* ConnectErrorFrame with a fault: the error key is left out
ConnectErrorFrameNoError(text) ==
    [content |-> EmptyText, done |-> TRUE, message_id |-> <<>>, error |-> NoField]

\* json.dumps({"content": "", "done": True, "metadata": {}, "error": text})
ConnectErrorFrame(text) ==
    [content |-> EmptyText, done |-> TRUE, message_id |-> <<>>, error |-> text]

\* str(uuid.uuid4()) of the n-th exchange of a connection
ExchangeUuid(s, n) == <<"ws", s, n>>


-----------------------------------------------------------------------------
(* The connection manager: api/chat.py ConnectionManager *)

NoConn == <<>>

\* connect, after websocket.accept(): active_connections[conv_id] = (websocket, user_id)
ManagerConnect(reg, s, conv_id, user_id) ==
    [reg EXCEPT ![conv_id] = <<s, user_id>>]

\* ManagerDisconnect with a fault: the entry is kept
ManagerDisconnectKeeps(reg, conv_id) == reg

\* disconnect: the entry of conv_id is deleted when present
ManagerDisconnect(reg, conv_id) ==
    [reg EXCEPT ![conv_id] = NoConn]

-----------------------------------------------------------------------------
(* The initial state *)

NewSocket ==
    [state |-> "new", pc |-> "connect", conv_id |-> None, user |-> None,
     clientGone |-> FALSE, conversation |-> NoDoc, bind |-> None,
     content |-> EmptyText, attachments |-> <<>>, messages |-> <<>>,
     full_response |-> EmptyText, produced |-> <<>>, message_id |-> <<>>,
     n |-> 0, exc |-> None, fail |-> None, upstream |-> "none"]

NewRequest ==
    [pc |-> "idle", kind |-> None, status |-> 0, detail |-> None,
     message_id |-> <<>>, content |-> EmptyText]

\* a conversation as create_conversation inserts it
NewConversation(user_id) == [none |-> FALSE, user_id |-> user_id, messages |-> <<>>]

\* the store holds the conversations of `existing`: c1 is u1's, c2 is u2's
ChatInit(existing) ==
    /\ store = [c \in ConvIds |->
                  IF c \in existing
                  THEN NewConversation(IF c = "c1" THEN "u1" ELSE "u2")
                  ELSE NoDoc]
    /\ registry = [c \in ConvIds |-> NoConn]
    /\ ws = [s \in Sockets |-> NewSocket]
    /\ frames = [s \in Sockets |-> <<>>]
    /\ http = [r \in Requests |-> NewRequest]
    /\ tempFiles = [f \in FileIds |-> "none"]

-----------------------------------------------------------------------------
(* websocket_chat: api/chat.py lines 153-283 *)

\* what the conversation id is to the user who asks for it: the case of an
\* attempt, kept with the connection or request for the properties
Ownership(st, conv_id, user_id) ==
    IF st[conv_id].none THEN "absent"
    ELSE IF st[conv_id].user_id = user_id THEN "owned"
    ELSE "foreign"

\* lines 166-195: authenticate, verify ownership, accept and register
WsConnect(s, token, conv_id) ==
    /\ ws[s].state = "new"
    /\ LET user == get_user_from_token(token) IN
       IF user.raised
       THEN /\ frames' = [frames EXCEPT ![s] = Append(@, ConnectErrorFrame("Authentication failed"))]
            /\ ws' = [ws EXCEPT ![s].state = "closed", ![s].pc = "done",
                                ![s].bind = "auth"]
            /\ UNCHANGED registry
       ELSE LET conversation == get_conversation_for_user(store, conv_id, user.id) IN
            IF conversation.none
            THEN /\ frames' = [frames EXCEPT ![s] = Append(@, ConnectErrorFrame("Conversation not found"))]
                 /\ ws' = [ws EXCEPT ![s].state = "closed", ![s].pc = "done",
                                     ![s].bind = Ownership(store, conv_id, user.id)]
                 /\ UNCHANGED registry
            ELSE /\ registry' = ManagerConnect(registry, s, conv_id, user.id)
                 /\ ws' = [ws EXCEPT ![s].state = "open", ![s].pc = "receive",
                                     ![s].conv_id = conv_id, ![s].user = user.id,
                                     ![s].conversation = conversation,
                                     ![s].bind = Ownership(store, conv_id, user.id)]
                 /\ UNCHANGED frames
    /\ UNCHANGED <<store, http, tempFiles, agents, sup, llm, regs, slr, merge, captcha, disk>>

\* the client goes away: later receives raise WebSocketDisconnect, later
\* sends raise
ClientDisconnect(s) ==
    /\ ws[s].state = "open"
    /\ ~ws[s].clientGone
    /\ ws' = [ws EXCEPT ![s].clientGone = TRUE]
    /\ UNCHANGED <<store, registry, frames, http, tempFiles, agents, sup, llm, regs, slr, merge, captcha, disk>>

\* lines 278-283: both handlers of the outer try call manager.disconnect,
\* and the endpoint returns
HandlerEnds(s, cause) ==
    /\ ws' = [ws EXCEPT ![s].state = "closed", ![s].pc = "done", ![s].fail = cause]
    /\ registry' = ManagerDisconnect(registry, ws[s].conv_id)

\* the exchanges started so far, over all connections
RECURSIVE Started(_)
Started(S) ==
    IF S = {} THEN 0
    ELSE LET s == CHOOSE x \in S : TRUE IN ws[s].n + Started(S \ {s})

\* line 200 raising WebSocketDisconnect
WsReceiveDisconnect(s) ==
    /\ ws[s].pc = "receive"
    /\ ws[s].clientGone
    /\ HandlerEnds(s, "disconnect")
    /\ UNCHANGED <<store, frames, http, tempFiles, agents, sup, llm, regs, slr, merge, captcha, disk>>

\* line 201: json.loads of a text that is no JSON
WsReceiveMalformed(s) ==
    /\ ws[s].pc = "receive"
    /\ ~ws[s].clientGone
    /\ Started(Sockets) < MaxExchanges
    /\ HandlerEnds(s, "malformed")
    /\ UNCHANGED <<store, frames, http, tempFiles, agents, sup, llm, regs, slr, merge, captcha, disk>>

\* lines 200-229: read one inbound message, build the history from the
\* handler's conversation reference, save the user message
WsReceive(s, content, attachments, storeOk) ==
    /\ ws[s].pc = "receive"
    /\ ~ws[s].clientGone
    /\ Started(Sockets) < MaxExchanges
    /\ IF ws[s].conversation.none
       THEN \* conversation.get on None: AttributeError
            /\ HandlerEnds(s, "no_conversation")
            /\ UNCHANGED store
       ELSE IF ~storeOk
       THEN \* add_message_to_conversation raises, outside the inner try
            /\ HandlerEnds(s, "store_user")
            /\ UNCHANGED store
       ELSE /\ store' = add_message_to_conversation(
                            store, ws[s].conv_id, ws[s].user, "user", content, attachments)
            /\ ws' = [ws EXCEPT
                        ![s].pc = "stream",
                        ![s].n = @ + 1,
                        ![s].content = content,
                        ![s].attachments = attachments,
                        ![s].messages = Append(RoleContent(ws[s].conversation.messages),
                                               [role |-> "user", content |-> content]),
                        ![s].full_response = EmptyText,
                        ![s].produced = <<>>,
                        ![s].message_id = ExchangeUuid(s, ws[s].n + 1),
                        ![s].exc = None,
                        ![s].fail = None,
                        ![s].upstream = "none"]
            /\ UNCHANGED registry
    /\ UNCHANGED <<frames, http, tempFiles, agents, sup, llm, regs, slr, merge, captcha, disk>>

\* the inner except clause is entered with exception text exc
Raise(s, cause, exc) ==
    ws' = [ws EXCEPT ![s].pc = "error", ![s].exc = exc,
                     ![s].fail = IF @ = None THEN cause ELSE @]

\* Accumulate with a fault: the chunk is put in front
AccumulatePrepended(full_response, chunk) == chunk \o full_response

\* line 241: full_response += chunk
Accumulate(full_response, chunk) == full_response \o chunk

\* lines 233-241: the loop asks the generator for the next chunk (the
\* first request starts the upstream call), the chunk is sent and then
\* added to full_response; a failing send leaves the loop with the
\* generator suspended at its yield
WsStreamChunk(s) ==
    /\ ws[s].pc = "stream"
    /\ Len(ws[s].produced) < MaxFrags
    /\ \E chunk \in Frags(ws[s].produced) :
       IF ws[s].clientGone
       THEN /\ ws' = [ws EXCEPT ![s].pc = "error", ![s].exc = SendError,
                                ![s].fail = "send",
                                ![s].produced = Append(@, chunk),
                                ![s].upstream = "open"]
            /\ UNCHANGED frames
       ELSE /\ frames' = [frames EXCEPT ![s] =
                            Append(@, to_json(chunk, FALSE, ws[s].message_id, None))]
            /\ ws' = [ws EXCEPT ![s].produced = Append(@, chunk),
                                ![s].full_response = Accumulate(@, chunk),
                                ![s].upstream = "open"]
    /\ UNCHANGED <<store, registry, http, tempFiles, agents, sup, llm, regs, slr, merge, captcha, disk>>

\* line 233: the stream raises, which ends the generator
WsStreamRaise(s, exc) ==
    /\ ws[s].pc = "stream"
    /\ ws' = [ws EXCEPT ![s].pc = "error", ![s].exc = exc,
                        ![s].fail = IF @ = None THEN "upstream" ELSE @,
                        ![s].upstream = "released"]
    /\ UNCHANGED <<store, registry, frames, http, tempFiles, agents, sup, llm, regs, slr, merge, captcha, disk>>

\* lines 243-249: the stream is exhausted and the final chunk is sent
WsStreamEnd(s) ==
    /\ ws[s].pc = "stream"
    /\ IF ws[s].clientGone
       THEN /\ ws' = [ws EXCEPT ![s].pc = "error", ![s].exc = SendError,
                                ![s].fail = IF @ = None THEN "send" ELSE @,
                                ![s].upstream = "released"]
            /\ UNCHANGED frames
       ELSE /\ frames' = [frames EXCEPT ![s] =
                            Append(@, to_json(EmptyText, TRUE, ws[s].message_id, None))]
            /\ ws' = [ws EXCEPT ![s].pc = "persist", ![s].upstream = "released"]
    /\ UNCHANGED <<store, registry, http, tempFiles, agents, sup, llm, regs, slr, merge, captcha, disk>>

\* the generator that line 233 left suspended is closed: no statement of
\* the endpoint closes it (llm_client.py lines 194-195 have no aclose and
\* no try/finally), the interpreter's finalizer of unreferenced
\* asynchronous generators does, in a task of its own
AsyncgenFinalize(s) ==
    /\ ws[s].pc # "stream"
    /\ ws[s].upstream = "open"
    /\ ws' = [ws EXCEPT ![s].upstream = "released"]
    /\ UNCHANGED <<store, registry, frames, http, tempFiles, agents, sup, llm, regs, slr, merge, captcha, disk>>

\* lines 251-257: save the assistant message
WsPersist(s, storeOk) ==
    /\ ws[s].pc = "persist"
    /\ IF storeOk
       THEN /\ store' = add_message_to_conversation(
                            store, ws[s].conv_id, ws[s].user, "assistant",
                            ws[s].full_response, <<>>)
            /\ ws' = [ws EXCEPT ![s].pc = "refresh"]
       ELSE /\ Raise(s, "store_assistant", StoreError)
            /\ UNCHANGED store
    /\ UNCHANGED <<registry, frames, http, tempFiles, agents, sup, llm, regs, slr, merge, captcha, disk>>

\* attachment_service.cleanup_files: each file that exists is unlinked,
\* and an exception of one deletion is logged, not raised
cleanup_files(files, file_ids) ==
    [f \in FileIds |->
        IF files[f] = "saved" /\ \E i \in 1..Len(file_ids) : file_ids[i] = f
        THEN "deleted" ELSE files[f]]

\* lines 259-266: refresh the conversation reference, clean up attachments
WsRefresh(s, storeOk) ==
    /\ ws[s].pc = "refresh"
    /\ IF storeOk
       THEN /\ ws' = [ws EXCEPT
                        ![s].pc = "receive",
                        ![s].conversation =
                            get_conversation_for_user(store, ws[s].conv_id, ws[s].user)]
            /\ tempFiles' = IF ws[s].attachments # <<>>
                            THEN cleanup_files(tempFiles, ws[s].attachments)
                            ELSE tempFiles
       ELSE /\ Raise(s, "refresh", StoreError)
            /\ UNCHANGED tempFiles
    /\ UNCHANGED <<store, registry, frames, http, agents, sup, llm, regs, slr, merge, captcha, disk>>

\* WsError with a fault: when the send of the error chunk fails, the text
\* accumulated so far is saved before the endpoint ends
WsErrorSavesPartial(s) ==
    /\ ws[s].pc = "error"
    /\ IF ws[s].clientGone
       THEN /\ HandlerEnds(s, ws[s].fail)
            /\ store' = add_message_to_conversation(
                            store, ws[s].conv_id, ws[s].user, "assistant",
                            ws[s].full_response, <<>>)
            /\ UNCHANGED frames
       ELSE /\ frames' = [frames EXCEPT ![s] =
                            Append(@, to_json(EmptyText, TRUE, ws[s].message_id, ws[s].exc))]
            /\ ws' = [ws EXCEPT ![s].pc = "receive"]
            /\ UNCHANGED <<registry, store>>
    /\ UNCHANGED <<http, tempFiles, agents, sup, llm, regs, slr, merge, captcha, disk>>

\* WsError with a fault: after the error chunk the endpoint ends
WsErrorClosesChannel(s) ==
    /\ ws[s].pc = "error"
    /\ IF ws[s].clientGone
       THEN /\ HandlerEnds(s, ws[s].fail)
            /\ UNCHANGED frames
       ELSE /\ frames' = [frames EXCEPT ![s] =
                            Append(@, to_json(EmptyText, TRUE, ws[s].message_id, ws[s].exc))]
            /\ HandlerEnds(s, ws[s].fail)
    /\ UNCHANGED <<store, http, tempFiles, agents, sup, llm, regs, slr, merge, captcha, disk>>

\* lines 268-276: the error chunk is sent; a failing send leaves the inner
\* handler and ends the endpoint through the outer one
WsError(s) ==
    /\ ws[s].pc = "error"
    /\ IF ws[s].clientGone
       THEN /\ HandlerEnds(s, ws[s].fail)
            /\ UNCHANGED frames
       ELSE /\ frames' = [frames EXCEPT ![s] =
                            Append(@, to_json(EmptyText, TRUE, ws[s].message_id, ws[s].exc))]
            /\ ws' = [ws EXCEPT ![s].pc = "receive"]
            /\ UNCHANGED registry
    /\ UNCHANGED <<store, http, tempFiles, agents, sup, llm, regs, slr, merge, captcha, disk>>

-----------------------------------------------------------------------------
(* The agent registry and the Supervisor: agents/base.py, agents/supervisor.py *)

AgentNames == {"Supervisor", "FinancialAnalysis", "DocumentAnalysis"}

\* the agent objects that exist: name (set by the constructor) and object;
\* "FinancialAnalysisAgent#2" is a second object of class FinancialAnalysisAgent
AgentObjs ==
    { [name |-> "Supervisor", obj |-> "SupervisorAgent"],
      [name |-> "FinancialAnalysis", obj |-> "FinancialAnalysisAgent"],
      [name |-> "FinancialAnalysis", obj |-> "FinancialAnalysisAgent#2"],
      [name |-> "DocumentAnalysis", obj |-> "DocumentAnalysisAgent"] }

ClassOf(obj) ==
    IF obj = "FinancialAnalysisAgent#2" THEN "FinancialAnalysisAgent" ELSE obj

\* register with a fault: a name that is registered keeps its agent
register_keeps_first(reg, agent) ==
    IF reg[agent.name] # None THEN reg ELSE [reg EXCEPT ![agent.name] = agent.obj]

\* AgentRegistry.register
register(reg, agent) == [reg EXCEPT ![agent.name] = agent.obj]

\* AgentRegistry.has_agent
has_agent(reg, name) == name \in DOMAIN reg /\ reg[name] # None

\* AgentRegistry.get
get(reg, name) == IF name \in DOMAIN reg THEN reg[name] ELSE None

\* agents/__init__.py: the three registrations at import
RegisteredAtImport ==
    register(register(register([n \in AgentNames |-> None],
        [name |-> "Supervisor", obj |-> "SupervisorAgent"]),
        [name |-> "FinancialAnalysis", obj |-> "FinancialAnalysisAgent"]),
        [name |-> "DocumentAnalysis", obj |-> "DocumentAnalysisAgent"])

\* the register calls of agents/__init__.py, in order
ImportRegs ==
    << [name |-> "Supervisor", obj |-> "SupervisorAgent"],
       [name |-> "FinancialAnalysis", obj |-> "FinancialAnalysisAgent"],
       [name |-> "DocumentAnalysis", obj |-> "DocumentAnalysisAgent"] >>

\* the keys of _agents in the order of their first insertion
KeyOrder == [i \in 1..Len(ImportRegs) |-> ImportRegs[i].name]

\* AgentRegistry.list_agents: get_info() of every value of the dict
list_agents(reg) ==
    LET keys == SelectSeq(KeyOrder, LAMBDA n : reg[n] # None) IN
    [i \in 1..Len(keys) |-> [name |-> keys[i], obj |-> reg[keys[i]]]]

\* the register calls after import that are followed
MaxRegs == 2

Missing == "Missing"

\* what the classification call gives: it raises, or it returns a text
\* that is no JSON, a JSON value that is no object, or a JSON object whose
\* keys may be missing ("agent": null is None; confidence is <<>> when the
\* key is missing, else <<hundredths>>)
ClassifyReplies ==
    { [kind |-> "raise"], [kind |-> "notjson"], [kind |-> "notobject"] }
    \cup
    [ kind : {"object"},
      intent : {"crypto_price_query", Missing},
      confidence : {<<95>>, <<>>},
      agent : {None, "", Missing, "FinancialAnalysis", "DocumentAnalysis",
               "Supervisor", "Weather"} ]

\* IntentResult(**result_data): intent is required, the others default
IntentResult(obj) ==
    [intent |-> obj.intent,
     confidence |-> IF obj.confidence = <<>> THEN 0 ELSE obj.confidence[1],
     agent |-> IF obj.agent = Missing THEN None ELSE obj.agent,
     reasoning |-> ""]

\* FallbackDecision with a fault: another intent label
FallbackDecisionGeneral ==
    [intent |-> "general", confidence |-> 50, agent |-> None, reasoning |-> "fallback"]

\* lines 83-91: the decision of the except clause
FallbackDecision ==
    [intent |-> "general_chat", confidence |-> 50, agent |-> None,
     reasoning |-> "Intent recognition failed, defaulting to general chat"]

\* whether lines 76-81 raise for this reply
ClassifyFails(reply) ==
    \/ reply.kind # "object"
    \/ reply.kind = "object" /\ reply.intent = Missing

\* recognize_intent, lines 70-91
recognize_intent(reply) ==
    IF ClassifyFails(reply) THEN FallbackDecision ELSE IntentResult(reply)

\* Delegates with a fault: the registry is not asked
DelegatesUnchecked(decision, reg) ==
    /\ decision.agent # None
    /\ decision.agent # ""

\* line 111: intent_result.agent and agent_registry.has_agent(intent_result.agent)
Delegates(decision, reg) ==
    /\ decision.agent # None
    /\ decision.agent # ""
    /\ has_agent(reg, decision.agent)

\* what a completion call gives
Completions == { [raised |-> FALSE, text |-> <<"r">>],
                 [raised |-> TRUE, text |-> <<"llm down">>] }

\* the task agents' except clauses: the error is returned as the answer
Apology(obj, completion) ==
    IF ClassOf(obj) = "FinancialAnalysisAgent"
    THEN <<"I apologize, but I encountered an error while analyzing the financial data: ">>
            \o completion.text
    ELSE <<"I apologize, but I encountered an error while analyzing the document: ">>
            \o completion.text

\* FinancialAnalysisAgent.execute and DocumentAnalysisAgent.execute, as seen
\* by their caller
TaskExecute(obj, completion) ==
    IF completion.raised
    THEN [raised |-> FALSE, text |-> Apology(obj, completion)]
    ELSE completion

\* what doc_service.process_file gives for a file: its text, or an exception
\* (the file is not there, or its extraction fails)
ExtractOutcomes ==
    { [raised |-> FALSE, text |-> <<"doc">>],
      [raised |-> TRUE, text |-> <<"File not found">>] }

Extractions == [FileIds -> ExtractOutcomes]

\* document.py line 53: the block of a file whose text was extracted
DocumentBlock(file_id, content) ==
    <<"--- Document Content (", file_id, ") ---">> \o content
        \o <<"--- End of Document ---">>

\* document.py line 56: the marker of a file whose extraction raised
ErrorMarker(file_id, text) ==
    <<"Error processing document ", file_id, ": ">> \o text

RECURSIVE document_content_aborts(_, _)
\* document_content with a fault: the first failure ends the loop
document_content_aborts(extraction, attachment_ids) ==
    IF attachment_ids = <<>> THEN EmptyText
    ELSE LET file_id == Head(attachment_ids)
             r == extraction[file_id]
         IN IF r.raised
            THEN ErrorMarker(file_id, r.text)
            ELSE DocumentBlock(file_id, r.text)
                    \o document_content_aborts(extraction, Tail(attachment_ids))

RECURSIVE document_content(_, _)
\* document.py lines 48-56: the loop over the attachment ids
document_content(extraction, attachment_ids) ==
    IF attachment_ids = <<>> THEN EmptyText
    ELSE LET file_id == Head(attachment_ids)
             r == extraction[file_id]
         IN (IF r.raised
             THEN ErrorMarker(file_id, r.text)
             ELSE DocumentBlock(file_id, r.text))
                \o document_content(extraction, Tail(attachment_ids))

\* the content of the user message a task agent sends to the completion
\* call: financial.py line 46, document.py lines 59-65
TaskInput(obj, input_text, context, extraction) ==
    IF ClassOf(obj) = "DocumentAnalysisAgent"
    THEN LET content == document_content(extraction, context.attachments) IN
         IF content # EmptyText
         THEN <<"User Query: ">> \o input_text \o <<"Document Content:">> \o content
         ELSE input_text
    ELSE input_text

\* the outcomes of the process_file calls a task agent makes, in order
TaskOutcomes(obj, context, extraction) ==
    IF ClassOf(obj) = "DocumentAnalysisAgent"
    THEN [i \in 1..Len(context.attachments) |-> extraction[context.attachments[i]]]
    ELSE <<>>

RECURSIVE SupervisorExecute(_, _, _, _)
\* SupervisorAgent.execute as seen by its caller: replies[d] is what the
\* classification call of nesting depth d gives; a nesting deeper than the
\* replies given stands for the unbounded one, which ends in RecursionError
SupervisorExecute(reg, replies, completion, d) ==
    IF d > Len(replies)
    THEN [raised |-> TRUE, text |-> <<"maximum recursion depth exceeded">>]
    ELSE LET decision == recognize_intent(replies[d]) IN
         IF Delegates(decision, reg)
         THEN IF get(reg, decision.agent) = "SupervisorAgent"
              THEN SupervisorExecute(reg, replies, completion, d + 1)
              ELSE TaskExecute(get(reg, decision.agent), completion)
         ELSE completion

-----------------------------------------------------------------------------
(* SupervisorAgent.execute, step by step *)

NoDecision == [intent |-> None, confidence |-> 0, agent |-> None, reasoning |-> ""]

\* given is the context as the caller passed it, context the same object
\* as execute leaves it
IdleSup ==
    [pc |-> "idle", input |-> EmptyText,
     given |-> [messages |-> <<>>, attachments |-> <<>>],
     context |-> [messages |-> <<>>, attachments |-> <<>>],
     depth |-> 0, reply |-> [kind |-> None], decision |-> NoDecision,
     target |-> None, result |-> [raised |-> FALSE, text |-> EmptyText],
     calls |-> <<>>]

SupInit ==
    /\ agents = RegisteredAtImport
    /\ regs = ImportRegs
    /\ sup = IdleSup

\* the histories a caller has read from the store
Histories ==
    { <<>>,
      <<[role |-> "user", content |-> <<"q">>],
        [role |-> "assistant", content |-> <<"r">>]>> }

\* api/chat.py lines 102-116: the caller appends the user message to the
\* history and calls execute with it
SupStart(input, history, attachments) ==
    /\ sup.pc = "idle"
    /\ sup' = [IdleSup EXCEPT
                 !.pc = "classify", !.depth = 1, !.input = input,
                 !.given = [messages |-> Append(history, [role |-> "user", content |-> input]),
                            attachments |-> attachments],
                 !.context = [messages |-> Append(history, [role |-> "user", content |-> input]),
                              attachments |-> attachments]]
    /\ UNCHANGED <<agents, chatVars, llm, regs, slr, merge, captcha, disk>>

\* lines 100-108: recognize_intent makes the classification call and
\* returns a decision, whatever the call gives
SupRecognize(reply) ==
    /\ sup.pc = "classify"
    /\ sup' = [sup EXCEPT
                 !.pc = "route",
                 !.reply = reply,
                 !.decision = recognize_intent(reply),
                 !.calls = Append(@, [op |-> "classify", depth |-> sup.depth,
                                      input |-> sup.input])]
    /\ UNCHANGED <<agents, chatVars, llm, regs, slr, merge, captcha, disk>>

\* lines 110-117: delegate to the named agent, or prepare the direct call;
\* messages.append changes the list of the context in place
SupRoute ==
    /\ sup.pc = "route"
    /\ IF Delegates(sup.decision, agents)
       THEN LET agent == get(agents, sup.decision.agent) IN
            /\ agent = "SupervisorAgent" => sup.depth < MaxDepth
            /\ sup' = [sup EXCEPT
                         !.pc = IF agent = "SupervisorAgent" THEN "classify" ELSE "task",
                         !.depth = IF agent = "SupervisorAgent" THEN @ + 1 ELSE @,
                         !.target = agent,
                         !.calls = Append(@, [op |-> "delegate", depth |-> sup.depth,
                                              agent |-> agent, input |-> sup.input,
                                              context |-> sup.context])]
       ELSE sup' = [sup EXCEPT
                      !.pc = "direct",
                      !.context.messages =
                          Append(@, [role |-> "user", content |-> sup.input])]
    /\ UNCHANGED <<agents, chatVars, llm, regs, slr, merge, captcha, disk>>

\* the task agent resolves the attachments (document agent), makes its
\* completion call and returns
SupTask(completion, extraction) ==
    /\ sup.pc = "task"
    /\ sup' = [sup EXCEPT
                 !.pc = "done",
                 !.result = TaskExecute(sup.target, completion),
                 !.calls = Append(@, [op |-> "task_complete", depth |-> sup.depth,
                                      agent |-> sup.target, input |-> sup.input,
                                      outcomes |-> TaskOutcomes(sup.target, sup.context,
                                                                extraction),
                                      content |-> TaskInput(sup.target, sup.input,
                                                            sup.context, extraction)])]
    /\ UNCHANGED <<agents, chatVars, llm, regs, slr, merge, captcha, disk>>

\* lines 119-120: the direct completion call over the context's messages
SupDirect(completion) ==
    /\ sup.pc = "direct"
    /\ sup' = [sup EXCEPT
                 !.pc = "done",
                 !.result = completion,
                 !.calls = Append(@, [op |-> "complete", depth |-> sup.depth,
                                      messages |-> sup.context.messages])]
    /\ UNCHANGED <<agents, chatVars, llm, regs, slr, merge, captcha, disk>>

\* AgentRegistry.register of an agent object
Register(agent) ==
    /\ Len(regs) < Len(ImportRegs) + MaxRegs
    /\ agents' = register(agents, agent)
    /\ regs' = Append(regs, agent)
    /\ UNCHANGED <<sup, chatVars, llm, slr, merge, captcha, disk>>

-----------------------------------------------------------------------------
(* send_message (POST /api/chat/{conv_id}): api/chat.py lines 71-150 *)

\* the classification replies followed in a request: one, or a decision for
\* the Supervisor itself and then one
RouteReplies ==
    { [kind |-> "raise"],
      [kind |-> "object", intent |-> "crypto_price_query", confidence |-> <<95>>,
       agent |-> "FinancialAnalysis"],
      [kind |-> "object", intent |-> "general_chat", confidence |-> <<95>>,
       agent |-> None] }

ToSupervisor ==
    [kind |-> "object", intent |-> "crypto_price_query", confidence |-> <<95>>,
     agent |-> "Supervisor"]

ReplySeqs ==
    { <<r>> : r \in RouteReplies } \cup { <<ToSupervisor, ToSupervisor>> }

\* what execute is given by its completion calls in one request
ExecuteInputs == ReplySeqs \X Completions

\* storeFail: 0 when both store calls return, 1 or 2 when the first or the
\* second raises
HttpSendMessage(r, token, conv_id) ==
    /\ http[r].pc = "idle"
    /\ LET user == get_user_from_token(token) IN
       IF user.raised
       THEN /\ http' = [http EXCEPT ![r] =
                          [NewRequest EXCEPT !.pc = "done", !.kind = "auth",
                                             !.status = user.status, !.detail = user.detail]]
            /\ UNCHANGED <<store, tempFiles>>
       ELSE LET conversation == get_conversation_for_user(store, conv_id, user.id) IN
            IF conversation.none
            THEN /\ http' = [http EXCEPT ![r] =
                               [NewRequest EXCEPT !.pc = "done",
                                                  !.kind = Ownership(store, conv_id, user.id),
                                                  !.status = 404,
                                                  !.detail = "Conversation not found"]]
                 /\ UNCHANGED <<store, tempFiles>>
            ELSE \E content \in Contents, attachments \in WsAttachmentLists,
                    given \in ExecuteInputs, storeFail \in 0..2 :
                 LET response == SupervisorExecute(agents, given[1], given[2], 1)
                     st1 == add_message_to_conversation(
                                store, conv_id, user.id, "user", content, attachments)
                     st2 == add_message_to_conversation(
                                st1, conv_id, user.id, "assistant", response.text, <<>>)
                 IN
                 IF response.raised
                 THEN \* lines 117-119
                      /\ http' = [http EXCEPT ![r] =
                                    [NewRequest EXCEPT !.pc = "done",
                                                       !.kind = Ownership(store, conv_id, user.id),
                                                       !.status = 500, !.detail = "upstream"]]
                      /\ UNCHANGED <<store, tempFiles>>
                 ELSE IF storeFail = 1
                 THEN /\ http' = [http EXCEPT ![r] =
                                    [NewRequest EXCEPT !.pc = "done",
                                                       !.kind = Ownership(store, conv_id, user.id),
                                                       !.status = 500, !.detail = StoreError]]
                      /\ UNCHANGED <<store, tempFiles>>
                 ELSE IF storeFail = 2
                 THEN /\ http' = [http EXCEPT ![r] =
                                    [NewRequest EXCEPT !.pc = "done",
                                                       !.kind = Ownership(store, conv_id, user.id),
                                                       !.status = 500, !.detail = StoreError]]
                      /\ store' = st1
                      /\ UNCHANGED tempFiles
                 ELSE /\ store' = st2
                      /\ tempFiles' = IF attachments # <<>>
                                      THEN cleanup_files(tempFiles, attachments)
                                      ELSE tempFiles
                      /\ http' = [http EXCEPT ![r] =
                                    [NewRequest EXCEPT
                                        !.pc = "done",
                                        !.kind = Ownership(store, conv_id, user.id),
                                        !.status = 200,
                                        !.message_id =
                                            st2[conv_id].messages[Len(st2[conv_id].messages)].id,
                                        !.content = response.text]]
    /\ UNCHANGED <<registry, ws, frames, agents, sup, llm, regs, slr, merge, captcha, disk>>

-----------------------------------------------------------------------------
(* The LLM clients: core/llm_client.py *)

\* the longest sequence of backend events one streaming call is given
MaxChunks == 2
\* the number of get_client calls that are followed
MaxCalls == 3

\* the provider names get_client has a branch for
KnownProviders == {"openai", "anthropic", "qwen"}
\* settings.default_llm_provider is a str field without a validator
ConfiguredProviders == KnownProviders \cup {"bogus"}
\* the provider argument of a call
ProviderArgs == {None, ""} \cup ConfiguredProviders

NoClient == <<>>
NoError == <<>>

\* the class get_client constructs for a provider name
ClientClass(provider) ==
    IF provider = "anthropic" THEN "AnthropicClient" ELSE "OpenAIClient"

\* str of the ValueError of line 162
UnsupportedProvider(provider) == <<"Unsupported LLM provider: ", provider>>

\* get_client with a fault: the cache is not looked up
get_client_uncached(cls, provider) ==
    LET p == IF provider = None \/ provider = "" THEN cls.default ELSE provider IN
    IF p \in KnownProviders
    THEN LET client == <<ClientClass(p), p, cls.built[p] + 1>> IN
         [raised |-> FALSE, client |-> client, error |-> NoError,
          cls |-> [cls EXCEPT !.clients[p] = client, !.built[p] = @ + 1]]
    ELSE [raised |-> TRUE, client |-> NoClient, error |-> UnsupportedProvider(p),
          cls |-> cls]

\* LLMClientFactory.get_client: the client returned or the error raised, and
\* the class attributes after the call; a constructed client is the
\* built[p]+1-th object made for the name
get_client(cls, provider) ==
    LET p == IF provider = None \/ provider = "" THEN cls.default ELSE provider IN
    IF p \in KnownProviders /\ cls.clients[p] # NoClient
    THEN [raised |-> FALSE, client |-> cls.clients[p], error |-> NoError, cls |-> cls]
    ELSE IF p \in KnownProviders
    THEN LET client == <<ClientClass(p), p, cls.built[p] + 1>> IN
         [raised |-> FALSE, client |-> client, error |-> NoError,
          cls |-> [cls EXCEPT !.clients[p] = client, !.built[p] = @ + 1]]
    ELSE [raised |-> TRUE, client |-> NoClient, error |-> UnsupportedProvider(p),
          cls |-> cls]

\* the events of a backend stream.  For the OpenAI-compatible backends an
\* event is a chunk and text its choices[0].delta.content (None when
\* has_text is FALSE); for Anthropic an event has a type and, when it is a
\* text delta, delta.text (a delta of another kind has no text attribute)
BackendEvents ==
    { [type |-> "content_block_delta", has_text |-> TRUE, text |-> <<"x">>],
      [type |-> "content_block_delta", has_text |-> TRUE, text |-> EmptyText],
      [type |-> "content_block_delta", has_text |-> FALSE, text |-> EmptyText],
      [type |-> "message_start", has_text |-> FALSE, text |-> EmptyText] }

EventSeqs == UNION { [1..n -> BackendEvents] : n \in 0..MaxChunks }

RECURSIVE OpenAIStream(_)
\* OpenAIClient.chat_completion_stream, lines 58-60: a chunk is yielded when
\* its content is truthy
OpenAIStream(events) ==
    IF events = <<>>
    THEN [raised |-> FALSE, yielded |-> <<>>]
    ELSE LET e == Head(events)
             rest == OpenAIStream(Tail(events))
         IN IF e.has_text /\ e.text # EmptyText
            THEN [rest EXCEPT !.yielded = <<e.text>> \o @]
            ELSE rest

RECURSIVE AnthropicStream(_)
\* AnthropicClient.chat_completion_stream, lines 110-112: delta.text of
\* every content_block_delta event is yielded; reading text of a delta
\* that has none raises AttributeError and ends the stream
AnthropicStream(events) ==
    IF events = <<>>
    THEN [raised |-> FALSE, yielded |-> <<>>]
    ELSE LET e == Head(events) IN
         IF e.type # "content_block_delta"
         THEN AnthropicStream(Tail(events))
         ELSE IF ~e.has_text
         THEN [raised |-> TRUE, yielded |-> <<>>]
         ELSE LET rest == AnthropicStream(Tail(events)) IN
              [rest EXCEPT !.yielded = <<e.text>> \o @]

\* client.chat_completion_stream(messages, model)
chat_completion_stream(client, events) ==
    IF client[1] = "AnthropicClient" THEN AnthropicStream(events)
    ELSE OpenAIStream(events)

NoStream == [op |-> None, raised |-> FALSE, error |-> NoError, yielded |-> <<>>]

\* the module after import: _clients = {}, and the configured default
LlmInit(default) ==
    llm = [default |-> default,
           clients |-> [p \in KnownProviders |-> NoClient],
           built |-> [p \in KnownProviders |-> 0],
           calls |-> <<>>,
           stream |-> NoStream]

\* the entry of the call log for a get_client call
ClientCall(provider, r) == [asked |-> provider, raised |-> r.raised, client |-> r.client]

\* a call of LLMClientFactory.get_client(provider)
GetClient(provider) ==
    /\ Len(llm.calls) < MaxCalls
    /\ LET r == get_client(llm, provider) IN
       llm' = [r.cls EXCEPT !.calls = Append(@, ClientCall(provider, r))]
    /\ UNCHANGED <<chatVars, agents, sup, regs, slr, merge, captcha, disk>>

\* get_llm_response_stream(messages, provider=provider), consumed to its
\* end: get_client is called when the first fragment is asked for, then the
\* client's stream is forwarded
LlmStream(provider, events) ==
    /\ Len(llm.calls) < MaxCalls
    /\ LET r == get_client(llm, provider) IN
       IF r.raised
       THEN llm' = [r.cls EXCEPT
                      !.calls = Append(@, ClientCall(provider, r)),
                      !.stream = [op |-> "get_client", raised |-> TRUE,
                                  error |-> r.error, yielded |-> <<>>]]
       ELSE LET out == chat_completion_stream(r.client, events) IN
            llm' = [r.cls EXCEPT
                      !.calls = Append(@, ClientCall(provider, r)),
                      !.stream = [op |-> r.client[1], raised |-> out.raised,
                                  error |-> IF out.raised THEN <<"AttributeError">>
                                            ELSE NoError,
                                  yielded |-> out.yielded]]
    /\ UNCHANGED <<chatVars, agents, sup, regs, slr, merge, captcha, disk>>

-----------------------------------------------------------------------------
(* Streaming utilities: core/streaming.py *)

\* the longest input iterator, and the longest input stream of a merge
MaxItems == 2
\* the most input streams of a merge
MaxStreams == 2

\* StreamChunk(content, done, metadata={"message_id": message_id}, error)
StreamChunk(content, done, message_id, error) ==
    [content |-> content, done |-> done, message_id |-> message_id, error |-> error]

\* how an iterator ends: StopAsyncIteration, or an exception with text exc[1]
NoRaise == <<>>
IteratorEnds == {NoRaise, <<"boom">>, <<"">>}

ItemTexts == {<<"a">>, <<"b">>}
ItemSeqs == UNION { [1..n -> ItemTexts] : n \in 0..MaxItems }
MessageIds == {"m1", "m2"}

IdleSlr ==
    [pc |-> "idle", items |-> <<>>, ends |-> NoRaise, message_id |-> None,
     pos |-> 0, out |-> <<>>]

\* stream_llm_response(llm_iterator, message_id) is called and consumed
SlrStart(items, ends, message_id) ==
    /\ slr.pc = "idle"
    /\ slr' = [IdleSlr EXCEPT !.pc = "run", !.items = items, !.ends = ends,
                              !.message_id = message_id]
    /\ UNCHANGED <<chatVars, agents, sup, llm, regs, merge, captcha, disk>>

\* lines 44-45: the iterator gives an item, which is yielded as a chunk
SlrYield ==
    /\ slr.pc = "run"
    /\ slr.pos < Len(slr.items)
    /\ slr' = [slr EXCEPT
                 !.pos = @ + 1,
                 !.out = Append(@, StreamChunk(slr.items[slr.pos + 1], FALSE,
                                               slr.message_id, None))]
    /\ UNCHANGED <<chatVars, agents, sup, llm, regs, merge, captcha, disk>>

\* SlrFinish with a fault: an exception of the iterator ends the generator
\* without a chunk
SlrFinishSilentOnError ==
    /\ slr.pc = "run"
    /\ slr.pos = Len(slr.items)
    /\ slr' = [slr EXCEPT
                 !.pc = "ended",
                 !.out = IF slr.ends = NoRaise
                         THEN Append(@, StreamChunk(EmptyText, TRUE, slr.message_id, None))
                         ELSE @]
    /\ UNCHANGED <<chatVars, agents, sup, llm, regs, merge, captcha, disk>>

\* lines 47-57: the iterator is exhausted and the final chunk is yielded,
\* or it raises and the except clause yields the error chunk
SlrFinish ==
    /\ slr.pc = "run"
    /\ slr.pos = Len(slr.items)
    /\ slr' = [slr EXCEPT
                 !.pc = "ended",
                 !.out = IF slr.ends = NoRaise
                         THEN Append(@, StreamChunk(EmptyText, TRUE, slr.message_id, None))
                         ELSE Append(@, StreamChunk(EmptyText, TRUE, slr.message_id,
                                                    slr.ends[1]))]
    /\ UNCHANGED <<chatVars, agents, sup, llm, regs, merge, captcha, disk>>

\* the input streams of a merge: stream i gives the items <<i, 1>>, <<i, 2>>, ...
MergeInputs ==
    UNION { { [i \in 1..n |-> [k \in 1..lens[i] |-> <<i, k>>]] :
                lens \in [1..n -> 0..MaxItems] } : n \in 0..MaxStreams }

IdleMerge ==
    [pc |-> "idle", streams |-> <<>>, pos |-> <<>>, done |-> <<>>,
     queue |-> <<>>, out |-> <<>>]

\* lines 62-73: the queue is made, one producer task per stream is created
\* and the loop condition is evaluated before any task has run
MergeStart(streams) ==
    /\ merge.pc = "idle"
    /\ merge' = [IdleMerge EXCEPT
                   !.pc = IF Len(streams) > 0 THEN "get" ELSE "ended",
                   !.streams = streams,
                   !.pos = [i \in 1..Len(streams) |-> 0],
                   !.done = [i \in 1..Len(streams) |-> FALSE]]
    /\ UNCHANGED <<chatVars, agents, sup, llm, regs, slr, captcha, disk>>

\* lines 65-66: producer i takes the next item of its stream and puts it
ProducerPut(i) ==
    /\ merge.pc \in {"yielded", "get"}
    /\ i \in 1..Len(merge.streams)
    /\ ~merge.done[i]
    /\ merge.pos[i] < Len(merge.streams[i])
    /\ merge' = [merge EXCEPT
                   !.pos[i] = @ + 1,
                   !.queue = Append(@, merge.streams[i][merge.pos[i] + 1])]
    /\ UNCHANGED <<chatVars, agents, sup, llm, regs, slr, captcha, disk>>

\* line 65: the stream of producer i is exhausted and its task is done
ProducerDone(i) ==
    /\ merge.pc \in {"yielded", "get"}
    /\ i \in 1..Len(merge.streams)
    /\ ~merge.done[i]
    /\ merge.pos[i] = Len(merge.streams[i])
    /\ merge' = [merge EXCEPT !.done[i] = TRUE]
    /\ UNCHANGED <<chatVars, agents, sup, llm, regs, slr, captcha, disk>>

\* line 73: the generator is resumed after a yield and evaluates the loop
\* condition; lines 79-81 when it is false
ConsumerCheck ==
    /\ merge.pc = "yielded"
    /\ merge' = [merge EXCEPT
                   !.pc = IF \E i \in 1..Len(merge.streams) : ~merge.done[i]
                          THEN "get" ELSE "ended"]
    /\ UNCHANGED <<chatVars, agents, sup, llm, regs, slr, captcha, disk>>

\* lines 75-76: queue.get() returns an item, which is yielded
ConsumerGet ==
    /\ merge.pc = "get"
    /\ merge.queue # <<>>
    /\ merge' = [merge EXCEPT
                   !.pc = "yielded",
                   !.queue = Tail(@),
                   !.out = Append(@, Head(merge.queue))]
    /\ UNCHANGED <<chatVars, agents, sup, llm, regs, slr, captcha, disk>>

\* lines 77-78 and 73: the queue stays empty for the timeout, and the loop
\* condition is evaluated again at once
ConsumerTimeout ==
    /\ merge.pc = "get"
    /\ merge.queue = <<>>
    /\ merge' = [merge EXCEPT
                   !.pc = IF \E i \in 1..Len(merge.streams) : ~merge.done[i]
                          THEN "get" ELSE "ended"]
    /\ UNCHANGED <<chatVars, agents, sup, llm, regs, slr, captcha, disk>>

\* no run of the streaming utilities has started
StreamingInit ==
    /\ slr = IdleSlr
    /\ merge = IdleMerge

-----------------------------------------------------------------------------
(* The captcha store: core/auth.py CaptchaGenerator *)

\* the captchas generated, the ticks of the clock and the verify calls of a run
MaxCaptchas == 2
MaxClock == 2
MaxVerifies == 2

\* timedelta(minutes=5), in ticks of the model's clock
CaptchaTtl == 1

\* str(uuid4()) of the n-th generate_captcha is n; 0 is an id never issued
CaptchaIds == 0..MaxCaptchas

\* random.choices(ascii_uppercase + digits): the codes stored
StoredCodes == {<<"A", "7">>, <<"B", "7">>}

\* the codes a client sends
GivenCodes == {<<"a", "7">>, <<"B", "7">>}

\* str.upper(), character by character
UpperChar(ch) == IF ch = "a" THEN "A" ELSE IF ch = "b" THEN "B" ELSE ch

upper(code) == [i \in 1..Len(code) |-> UpperChar(code[i])]

NoCaptcha == [none |-> TRUE]

\* _cleanup_expired: the entries with now > expires_at are deleted
cleanup_expired(storage, now) ==
    [k \in DOMAIN storage |->
        IF ~storage[k].none /\ now > storage[k].expires_at THEN NoCaptcha ELSE storage[k]]

\* generate_captcha: the storage after the code is stored and the expired
\* entries are cleaned up
generate_captcha(storage, captcha_id, code, now) ==
    cleanup_expired(
        [storage EXCEPT ![captcha_id] =
            [none |-> FALSE, code |-> code, expires_at |-> now + CaptchaTtl]],
        now)

\* verify_captcha with a fault: the entry is removed only when the code matches
verify_captcha_keeps_on_mismatch(storage, captcha_id, code, now) ==
    IF storage[captcha_id].none
    THEN [result |-> FALSE, storage |-> storage]
    ELSE IF now > storage[captcha_id].expires_at
    THEN [result |-> FALSE, storage |-> [storage EXCEPT ![captcha_id] = NoCaptcha]]
    ELSE IF upper(storage[captcha_id].code) = upper(code)
    THEN [result |-> TRUE, storage |-> [storage EXCEPT ![captcha_id] = NoCaptcha]]
    ELSE [result |-> FALSE, storage |-> storage]

\* verify_captcha: what it returns and the storage it leaves
verify_captcha(storage, captcha_id, code, now) ==
    IF storage[captcha_id].none
    THEN [result |-> FALSE, storage |-> storage]
    ELSE IF now > storage[captcha_id].expires_at
    THEN [result |-> FALSE, storage |-> [storage EXCEPT ![captcha_id] = NoCaptcha]]
    ELSE [result |-> upper(storage[captcha_id].code) = upper(code),
          storage |-> [storage EXCEPT ![captcha_id] = NoCaptcha]]

CaptchaInit ==
    captcha = [storage |-> [k \in CaptchaIds |-> NoCaptcha], now |-> 0,
               issued |-> 0, log |-> <<>>]

\* GET /api/auth/captcha: generate_captcha with a fresh id
CaptchaGenerate(code) ==
    /\ captcha.issued < MaxCaptchas
    /\ captcha' = [captcha EXCEPT
                     !.issued = @ + 1,
                     !.storage = generate_captcha(@, captcha.issued + 1, code, captcha.now)]
    /\ UNCHANGED <<chatVars, agents, sup, llm, regs, slr, merge, disk>>

\* register and login: verify_captcha with what the client sent
CaptchaVerify(captcha_id, code) ==
    /\ Len(captcha.log) < MaxVerifies
    /\ LET r == verify_captcha(captcha.storage, captcha_id, code, captcha.now) IN
       captcha' = [captcha EXCEPT
                     !.storage = r.storage,
                     !.log = Append(@, [captcha_id |-> captcha_id, code |-> code,
                                        now |-> captcha.now,
                                        before |-> captcha.storage[captcha_id],
                                        after |-> r.storage[captcha_id],
                                        result |-> r.result])]
    /\ UNCHANGED <<chatVars, agents, sup, llm, regs, slr, merge, disk>>

\* datetime.utcnow() advances
CaptchaTick ==
    /\ captcha.now < MaxClock
    /\ captcha' = [captcha EXCEPT !.now = @ + 1]
    /\ UNCHANGED <<chatVars, agents, sup, llm, regs, slr, merge, disk>>

-----------------------------------------------------------------------------
(* Uploaded files: utils/temp_manager.py, services/attachment.py,
   services/document.py *)

\* the uploads of a run
MaxUploads == 2

\* client file names, as their parts between the dots
FileNames ==
    { <<"notes", "txt">>, <<"a", "b", "md">>, <<"data", "json">>, <<"N", "TXT">>,
      <<"README">>, <<"x", "bin">> }

\* the bytes of a file: empty, "hi", "e" with an acute accent, and a byte
\* that no UTF-8 text holds
FileContents == { <<>>, <<104, 105>>, <<195, 169>>, <<255>> }

\* Path(filename).suffix, without its dot
Suffix(filename) == IF Len(filename) > 1 THEN filename[Len(filename)] ELSE ""

\* str.lower() of a suffix
lower(ext) == IF ext = "TXT" THEN "txt" ELSE ext

Suffixes == { Suffix(f) : f \in FileNames }

\* a file name in the temp directory: "<stem>.<ext>", or "<stem>" when ext is ""
DiskNames == [stem : 1..MaxUploads, ext : Suffixes]

\* generate_file_id: f"{uuid4()}{ext}", the n-th uuid being n
generate_file_id(n, filename) == [stem |-> n, ext |-> Suffix(filename)]

NoFile == [exists |-> FALSE]

\* save_file: the bytes are written under the file id
save_file(files, file_id, content) ==
    [files EXCEPT ![file_id] = [exists |-> TRUE, content |-> content]]

\* delete_file: the file is unlinked when it exists
delete_file(files, file_id) == [files EXCEPT ![file_id] = NoFile]

\* read_file: the bytes of the file, or None
read_file(files, file_id) ==
    IF file_id \in DOMAIN files /\ files[file_id].exists
    THEN [none |-> FALSE, content |-> files[file_id].content]
    ELSE [none |-> TRUE]

\* bytes.decode("utf-8") for sequences of one and two bytes: the code
\* points, or UnicodeDecodeError
RECURSIVE decode_utf8(_)
decode_utf8(bytes) ==
    IF bytes = <<>> THEN [kind |-> "text", text |-> <<>>]
    ELSE IF bytes[1] < 128
    THEN LET rest == decode_utf8(Tail(bytes)) IN
         IF rest.kind = "text"
         THEN [kind |-> "text", text |-> <<bytes[1]>> \o rest.text]
         ELSE rest
    ELSE IF /\ bytes[1] \in 194..223
            /\ Len(bytes) >= 2
            /\ bytes[2] \in 128..191
    THEN LET rest == decode_utf8(Tail(Tail(bytes))) IN
         IF rest.kind = "text"
         THEN [kind |-> "text",
               text |-> <<(bytes[1] - 192) * 64 + (bytes[2] - 128)>> \o rest.text]
         ELSE rest
    ELSE [kind |-> "raised", error |-> "UnicodeDecodeError"]

\* str(file_path.name).split(".")[0]: the name up to its first dot
SplitStem(file_id) == [stem |-> file_id.stem, ext |-> ""]

\* _process_text: read_file of the name up to its first dot, decoded
process_text(files, file_id) ==
    LET content == read_file(files, SplitStem(file_id)) IN
    IF ~content.none /\ content.content # <<>>
    THEN decode_utf8(content.content)
    ELSE [kind |-> "text", text |-> <<>>]

\* process_file for the suffixes that uploads of FileNames have
process_file(files, file_id) ==
    IF ~files[file_id].exists
    THEN [kind |-> "raised", error |-> "FileNotFoundError"]
    ELSE IF lower(file_id.ext) \in {"txt", "md", "json"}
    THEN process_text(files, file_id)
    ELSE [kind |-> "unsupported"]

NoProcessed == [none |-> TRUE]

DiskInit ==
    disk = [files |-> [f \in DiskNames |-> NoFile], uploads |-> <<>>,
            last |-> NoProcessed]

\* attachment_service.upload_file: the size and the declared MIME type are
\* validated, the file is saved under a new file id
UploadFile(filename, content, verdict) ==
    /\ Len(disk.uploads) < MaxUploads
    /\ IF verdict = "ok"
       THEN LET file_id == generate_file_id(Len(disk.uploads) + 1, filename) IN
            disk' = [disk EXCEPT
                       !.files = save_file(@, file_id, content),
                       !.uploads = Append(@, [status |-> 200, file_id |-> file_id,
                                              filename |-> filename])]
       ELSE disk' = [disk EXCEPT
                       !.uploads = Append(@, [status |-> IF verdict = "too_large"
                                                         THEN 413 ELSE 415,
                                              file_id |-> generate_file_id(0, <<>>),
                                              filename |-> filename])]
    /\ UNCHANGED <<chatVars, agents, sup, llm, regs, slr, merge, captcha>>

\* document_service.process_file(file_id), as the document agent calls it
ProcessFile(file_id) ==
    /\ disk' = [disk EXCEPT
                  !.last = [none |-> FALSE, file_id |-> file_id,
                            saved |-> disk.files[file_id],
                            result |-> process_file(disk.files, file_id)]]
    /\ UNCHANGED <<chatVars, agents, sup, llm, regs, slr, merge, captcha>>

\* attachment_service.cleanup_files of one file id
DeleteFile(file_id) ==
    /\ disk.files[file_id].exists
    /\ disk' = [disk EXCEPT !.files = delete_file(@, file_id)]
    /\ UNCHANGED <<chatVars, agents, sup, llm, regs, slr, merge, captcha>>

\* no captcha was generated, the temp directory is empty
UtilInit == CaptchaInit /\ DiskInit

-----------------------------------------------------------------------------
(* The other endpoints that change what the chat endpoints read *)

\* delete_conversation (api/conversations.py): the owner's delete removes
\* the document; any other delete answers 404 and changes nothing
DeleteConversation(user_id, conv_id) ==
    /\ ~get_conversation_for_user(store, conv_id, user_id).none
    /\ store' = [store EXCEPT ![conv_id] = NoDoc]
    /\ UNCHANGED <<registry, ws, frames, http, tempFiles, agents, sup, llm, regs, slr, merge, captcha, disk>>

-----------------------------------------------------------------------------
(* The specifications *)

\* one conversation exists
Init == ChatInit({"c1"}) /\ SupInit /\ LlmInit("openai") /\ StreamingInit /\ UtilInit

\* two conversations of two owners exist
InitHttp == ChatInit(ConvIds) /\ SupInit /\ LlmInit("openai") /\ StreamingInit /\ UtilInit

\* the provider is configured to any string
InitLlm ==
    /\ ChatInit({"c1"}) /\ SupInit /\ StreamingInit /\ UtilInit
    /\ \E default \in ConfiguredProviders : LlmInit(default)

ChatNext ==
    \/ \E s \in Sockets, token \in Tokens, c \in ConvIds : WsConnect(s, token, c)
    \/ \E s \in Sockets : ClientDisconnect(s)
    \/ \E s \in Sockets : WsReceiveDisconnect(s)
    \/ \E s \in Sockets : WsReceiveMalformed(s)
    \/ \E s \in Sockets, content \in Contents, att \in WsAttachmentLists, ok \in BOOLEAN :
          WsReceive(s, content, att, ok)
    \/ \E s \in Sockets : WsStreamChunk(s)
    \/ \E s \in Sockets, exc \in UpstreamErrors : WsStreamRaise(s, exc)
    \/ \E s \in Sockets : WsStreamEnd(s)
    \/ \E s \in Sockets : AsyncgenFinalize(s)
    \/ \E s \in Sockets, ok \in BOOLEAN : WsPersist(s, ok)
    \/ \E s \in Sockets, ok \in BOOLEAN : WsRefresh(s, ok)
    \/ \E s \in Sockets : WsError(s)
    \/ \E u \in Users, c \in ConvIds : DeleteConversation(u, c)

Next == ChatNext

\* the streaming endpoint, the store and the connection manager
Spec == Init /\ [][Next]_vars

\* the steps of connection s1 alone
ChannelNext ==
    \/ \E token \in Tokens, c \in ConvIds : WsConnect("s1", token, c)
    \/ ClientDisconnect("s1")
    \/ WsReceiveDisconnect("s1")
    \/ WsReceiveMalformed("s1")
    \/ \E content \in Contents, att \in WsAttachmentLists, ok \in BOOLEAN :
          WsReceive("s1", content, att, ok)
    \/ WsStreamChunk("s1")
    \/ \E exc \in UpstreamErrors : WsStreamRaise("s1", exc)
    \/ WsStreamEnd("s1")
    \/ AsyncgenFinalize("s1")
    \/ \E ok \in BOOLEAN : WsPersist("s1", ok)
    \/ \E ok \in BOOLEAN : WsRefresh("s1", ok)
    \/ WsError("s1")
    \/ \E u \in Users, c \in ConvIds : DeleteConversation(u, c)

NextChannel == ChannelNext

\* one connection of the streaming endpoint, with the store
SpecChannel == Init /\ [][NextChannel]_vars

\* the steps of the handler of connection s that wait for nothing but the
\* store and the socket: saving the reply, refreshing, sending the error
\* chunk
HandlerProgress(s) ==
    \/ \E ok \in BOOLEAN : WsPersist(s, ok)
    \/ \E ok \in BOOLEAN : WsRefresh(s, ok)
    \/ WsError(s)

\* one connection, whose handler is resumed whenever the call it awaits
\* has returned or raised
SpecChannelLive == Init /\ [][NextChannel]_vars /\ WF_vars(HandlerProgress("s1"))

\* the steps of connection s1 and of request r1, with two owners
OwnersNext ==
    \/ \E token \in Tokens, c \in ConvIds : WsConnect("s1", token, c)
    \/ ClientDisconnect("s1")
    \/ WsReceiveDisconnect("s1")
    \/ WsReceiveMalformed("s1")
    \/ \E content \in Contents, att \in WsAttachmentLists, ok \in BOOLEAN :
          WsReceive("s1", content, att, ok)
    \/ WsStreamChunk("s1")
    \/ \E exc \in UpstreamErrors : WsStreamRaise("s1", exc)
    \/ WsStreamEnd("s1")
    \/ AsyncgenFinalize("s1")
    \/ \E ok \in BOOLEAN : WsPersist("s1", ok)
    \/ \E ok \in BOOLEAN : WsRefresh("s1", ok)
    \/ WsError("s1")
    \/ \E token \in Tokens, c \in ConvIds : HttpSendMessage("r1", token, c)
    \/ \E u \in Users, c \in ConvIds : DeleteConversation(u, c)

NextOwners == OwnersNext

\* one connection and one request over the conversations of two owners
SpecOwners == InitHttp /\ [][NextOwners]_vars

CaptchaNext ==
    \/ \E code \in StoredCodes : CaptchaGenerate(code)
    \/ \E k \in CaptchaIds, code \in GivenCodes : CaptchaVerify(k, code)
    \/ CaptchaTick

NextCaptcha == CaptchaNext

\* the captcha store under generate, verify and the passing of time
SpecCaptcha == Init /\ [][NextCaptcha]_vars

FilesNext ==
    \/ \E filename \in FileNames, content \in FileContents,
          verdict \in {"ok", "too_large", "bad_type"} :
          UploadFile(filename, content, verdict)
    \/ \E file_id \in DiskNames : ProcessFile(file_id)
    \/ \E file_id \in DiskNames : DeleteFile(file_id)

NextFiles == FilesNext

\* uploads, process_file and the cleanup of the temp directory
SpecFiles == Init /\ [][NextFiles]_vars

HttpNext ==
    \/ \E s \in Sockets, token \in Tokens, c \in ConvIds : WsConnect(s, token, c)
    \/ \E r \in Requests, token \in Tokens, c \in ConvIds : HttpSendMessage(r, token, c)
    \/ \E u \in Users, c \in ConvIds : DeleteConversation(u, c)

NextHttp == HttpNext

\* binding a connection and the request-response endpoint
SpecHttp == InitHttp /\ [][NextHttp]_vars

SupNext ==
    \/ \E input \in Contents \cup {<<"p">>}, history \in Histories, att \in AttachmentLists :
          SupStart(input, history, att)
    \/ \E reply \in ClassifyReplies : SupRecognize(reply)
    \/ SupRoute
    \/ \E completion \in Completions, extraction \in Extractions :
          SupTask(completion, extraction)
    \/ \E completion \in Completions : SupDirect(completion)
    \/ \E agent \in AgentObjs : Register(agent)

NextSup == SupNext

\* one SupervisorAgent.execute call over the agent registry
SpecSup == Init /\ [][NextSup]_vars

LlmNext ==
    \/ \E provider \in ProviderArgs : GetClient(provider)
    \/ \E provider \in ProviderArgs, events \in EventSeqs : LlmStream(provider, events)

NextLlm == LlmNext

\* calls of the client factory and of the streaming completion
SpecLlm == InitLlm /\ [][NextLlm]_vars

SlrNext ==
    \/ \E items \in ItemSeqs, ends \in IteratorEnds, m \in MessageIds : SlrStart(items, ends, m)
    \/ SlrYield
    \/ SlrFinish

NextSlr == SlrNext

\* one run of stream_llm_response
SpecSlr == Init /\ [][NextSlr]_vars

MergeNext ==
    \/ \E streams \in MergeInputs : MergeStart(streams)
    \/ \E i \in 1..MaxStreams : ProducerPut(i)
    \/ \E i \in 1..MaxStreams : ProducerDone(i)
    \/ ConsumerCheck
    \/ ConsumerGet
    \/ ConsumerTimeout

NextMerge == MergeNext

\* one run of merge_streams
SpecMerge == Init /\ [][NextMerge]_vars

-----------------------------------------------------------------------------
(* Properties *)

\* the frames of connection s that carry message_id m, in the order sent
ExchangeFrames(s, m) == SelectSeq(frames[s], LAMBDA f : f.message_id = m)

\* of those, the frames with done = true
TerminalFrames(s, m) == SelectSeq(ExchangeFrames(s, m), LAMBDA f : f.done)

\* of those, the frames with done = false
FragmentFrames(s, m) == SelectSeq(ExchangeFrames(s, m), LAMBDA f : ~f.done)

RECURSIVE Flatten(_)
\* the concatenation of a sequence of texts
Flatten(texts) ==
    IF texts = <<>> THEN EmptyText ELSE Head(texts) \o Flatten(Tail(texts))

\* the contents of a sequence of frames
ContentsOf(fs) == [i \in 1..Len(fs) |-> fs[i].content]

\* connection s has finished an exchange and waits for the next message
ExchangeOver(s) == ws[s].pc = "receive" /\ ws[s].n >= 1

\* connection s is accepted, not closed, and its client is there
Live(s) == ws[s].state = "open" /\ ~ws[s].clientGone

\* C1: every exchange sends exactly one frame with done = true, and no
\* frame of the exchange follows it, also when a step of the exchange raises.
C1_OneTerminalFrame ==
    \A s \in Sockets :
        /\ \A i, j \in 1..Len(frames[s]) :
              (i < j /\ frames[s][i].done)
                  => frames[s][j].message_id # frames[s][i].message_id
        /\ ExchangeOver(s) => Len(TerminalFrames(s, ws[s].message_id)) = 1

\* C2: no two live connections are there for the same conversation id.
C2_OneLiveChannelPerConversation ==
    \A s1, s2 \in Sockets :
        (s1 # s2 /\ Live(s1) /\ Live(s2)) => ws[s1].conv_id # ws[s2].conv_id

\* C3: when a connect replaces the binding of a conversation id, the
\* connection bound before has been sent a terminal error frame and is
\* closed by the time the new one is registered.
C3_PreviousClosedOnRebind ==
    [][\A c \in ConvIds :
          (registry[c] # NoConn /\ registry'[c] # NoConn /\ registry'[c][1] # registry[c][1])
            => LET old == registry[c][1] IN
               /\ ws'[old].state = "closed"
               /\ Len(frames'[old]) >= 1
               /\ frames'[old][Len(frames'[old])].done
               /\ frames'[old][Len(frames'[old])].error # NoField]_vars

\* C4: when the responder stream raises after k fragments, the client has
\* got those k fragment frames and then one terminal frame, and the store
\* holds an assistant message whose content is the k fragments concatenated.
C4_PartialTextPersisted ==
    \A s \in Sockets :
        (ExchangeOver(s) /\ ws[s].fail = "upstream" /\ ~store[ws[s].conv_id].none)
          => /\ ContentsOf(FragmentFrames(s, ws[s].message_id)) = ws[s].produced
             /\ Len(TerminalFrames(s, ws[s].message_id)) = 1
             /\ \E i \in 1..Len(store[ws[s].conv_id].messages) :
                   /\ store[ws[s].conv_id].messages[i].role = "assistant"
                   /\ store[ws[s].conv_id].messages[i].content = Flatten(ws[s].produced)

\* the responder stream of the current exchange of s ended without raising
StreamCompleted(s) == ws[s].fail \in {None, "store_assistant", "refresh"}

C6_ExchangeFailureKeepsChannel ==
    \A s \in Sockets :
        (ws[s].fail \in {"upstream", "store_user", "store_assistant"} /\ ~ws[s].clientGone)
          => /\ ws[s].state = "open"
             /\ ExchangeOver(s) =>
                   /\ Len(TerminalFrames(s, ws[s].message_id)) >= 1
                   /\ frames[s][Len(frames[s])].done

\* some entry of the registry names connection s
Registered(s) == \E c \in ConvIds : registry[c] # NoConn /\ registry[c][1] = s

\* what the client of connection s has observed
WsSignal(s) == <<frames[s], ws[s].state, Registered(s)>>

\* what the caller of request r has observed
HttpSignal(r) == <<http[r].status, http[r].detail, http[r].message_id, http[r].content>>

\* C7: an attempt on a conversation of another owner is answered as an
\* attempt on a conversation that does not exist, on the WebSocket bind
\* and on the POST.
C7_ForeignLikeAbsent ==
    /\ \A s1, s2 \in Sockets :
          (ws[s1].bind = "foreign" /\ ws[s2].bind = "absent")
            => WsSignal(s1) = WsSignal(s2)
    /\ \A r1, r2 \in Requests :
          (http[r1].kind = "foreign" /\ http[r2].kind = "absent")
            => HttpSignal(r1) = HttpSignal(r2)

\* C7 witness: both cases were attempted on both endpoints
C7_Witness ==
    /\ \E s1, s2 \in Sockets : ws[s1].bind = "foreign" /\ ws[s2].bind = "absent"
    /\ \E r1, r2 \in Requests : http[r1].kind = "foreign" /\ http[r2].kind = "absent"

FailedReply(reply) ==
    \/ reply.kind \in {"raise", "notjson", "notobject"}
    \/ reply.kind = "object" /\ reply.intent = Missing

\* the last call execute has made
LastCall == sup.calls[Len(sup.calls)]

\* C9: when the classification call fails, the decision is general_chat
\* with confidence 0.5 and no agent, and execute goes on to the direct
\* completion.
C9_FallbackOnClassificationFailure ==
    (sup.pc \in {"route", "direct", "task", "done"} /\ FailedReply(sup.reply))
      => /\ sup.decision.intent = "general_chat"
         /\ sup.decision.confidence = 50
         /\ sup.decision.agent = None
         /\ sup.pc # "task"
         /\ sup.pc = "done" => /\ LastCall.op = "complete"
                               /\ LastCall.depth = sup.depth

\* C9 witness: a classification call raised and the exchange was answered
C9_Witness ==
    /\ sup.pc = "done"
    /\ sup.reply.kind = "raise"
    /\ LastCall.op = "complete"
    /\ ~sup.result.raised

\* the decision names an agent, and the name is registered
NamesRegistered ==
    /\ sup.decision.agent \notin {None, ""}
    /\ sup.decision.agent \in DOMAIN agents
    /\ agents[sup.decision.agent] # None

\* the last call hands the input and the caller's context to an agent
\* object whose name is the one the decision gives
DelegatedAsDecided ==
    /\ LastCall.op = "delegate"
    /\ LastCall.input = sup.input
    /\ LastCall.context = sup.given
    /\ \E a \in AgentObjs : a.obj = LastCall.agent /\ a.name = sup.decision.agent

\* msgs begins with the whole of history
HasPrefix(msgs, history) ==
    /\ Len(msgs) >= Len(history)
    /\ SubSeq(msgs, 1, Len(history)) = history

\* C10: execute delegates to an agent exactly when the decision names it
\* and it is registered, with the input and the context; otherwise the
\* direct completion is called over the full history.
C10_DelegatesIffNamedAndRegistered ==
    /\ sup.pc = "task" => NamesRegistered /\ DelegatedAsDecided
    /\ (sup.pc = "classify" /\ sup.depth > 1)
          => NamesRegistered /\ DelegatedAsDecided /\ sup.decision.agent = "Supervisor"
    /\ sup.pc = "direct"
          => ~NamesRegistered /\ HasPrefix(sup.context.messages, sup.given.messages)
    /\ sup.pc = "done"
          => IF LastCall.op = "complete"
             THEN ~NamesRegistered /\ HasPrefix(LastCall.messages, sup.given.messages)
             ELSE NamesRegistered /\ LastCall.op = "task_complete"

\* C10 witness: a decision for the financial agent was delegated to it
C10_Witness ==
    /\ sup.pc = "task"
    /\ sup.decision.agent = "FinancialAnalysis"
    /\ sup.target = "FinancialAnalysisAgent"
    /\ Len(sup.given.messages) > 1

\* the classify calls the Supervisor has made for the input text
RoutingDecisionsFor(content) ==
    { i \in 1..Len(sup.calls) :
        sup.calls[i].op = "classify" /\ sup.calls[i].input = content }

\* C11: when a fragment frame of an exchange has been sent, the Supervisor
\* has made its routing decision for the message of the exchange.
C11_RoutedBeforeFirstFragment ==
    \A s \in Sockets :
        (ws[s].n >= 1 /\ Len(FragmentFrames(s, ws[s].message_id)) >= 1)
          => RoutingDecisionsFor(ws[s].content) # {}

\* the last frame sent on connection s is the terminal frame of exchange n
LastFrameEnds(s, n) ==
    /\ Len(frames[s]) >= 1
    /\ frames[s][Len(frames[s])].done
    /\ frames[s][Len(frames[s])].message_id = ExchangeUuid(s, n)

\* C12: a step that reads the message after the n-th exchange of a
\* connection is taken only when the last frame sent is the terminal frame
\* of the n-th exchange, and every frame sent carries the id of the
\* exchange that is current when it is sent.
C12_ExchangesNotInterleaved ==
    [][\A s \in Sockets :
          /\ (ws[s].pc = "receive" /\ ws'[s].pc # "receive" /\ ws[s].n >= 1)
                => LastFrameEnds(s, ws[s].n)
          /\ frames'[s] # frames[s]
                => /\ Len(frames'[s]) = Len(frames[s]) + 1
                   /\ SubSeq(frames'[s], 1, Len(frames[s])) = frames[s]
                   /\ frames'[s][Len(frames'[s])].message_id = ws[s].message_id]_vars

\* C12 witness: the second exchange of a connection streams after the
\* first has sent its fragments and its terminal frame
C12_Witness ==
    \E s \in Sockets :
        /\ ws[s].n = 2
        /\ Len(FragmentFrames(s, ExchangeUuid(s, 1))) >= 1
        /\ Len(TerminalFrames(s, ExchangeUuid(s, 1))) >= 1
        /\ Len(FragmentFrames(s, ExchangeUuid(s, 2))) >= 1

\* connection s is between reading the history and persisting the
\* assistant message
InProgress(s) == ws[s].pc \in {"stream", "persist"}

\* C13: no two exchanges on one conversation id are in progress at once.
C13_OneExchangePerConversation ==
    \A s1, s2 \in Sockets :
        (s1 # s2 /\ InProgress(s1) /\ InProgress(s2))
          => ws[s1].conv_id # ws[s2].conv_id

\* the handler of connection s takes a step: its record changes in more
\* than the state of the upstream call, which the finalizer changes
HandlerStep(s) ==
    [ws'[s] EXCEPT !.upstream = "none"] # [ws[s] EXCEPT !.upstream = "none"]

\* C14: once the client of a connection is gone, no frame is delivered on
\* it; and from the moment the client is gone during the stream or the
\* handling of its error, the handler writes nothing to the store and
\* deletes no file: it only moves to the error handling or ends.
C14_NothingAfterDisconnect ==
    [][\A s \in Sockets :
          /\ ws[s].clientGone => frames'[s] = frames[s]
          /\ (ws[s].clientGone /\ ws[s].pc \in {"stream", "error"} /\ HandlerStep(s))
                => /\ store' = store
                   /\ tempFiles' = tempFiles
                   /\ ws'[s].pc \in {"error", "done"}
          /\ (ws[s].fail = "send" /\ HandlerStep(s)) => ws'[s].state = "closed"]_vars

\* C14 witness: the client went away after the first of two fragments; the
\* handler has ended, one fragment frame was delivered, nothing was saved
\* for the assistant
C14_Witness ==
    \E s \in Sockets :
        /\ ws[s].state = "closed"
        /\ ws[s].fail = "send"
        /\ Len(ws[s].produced) = 2
        /\ Len(frames[s]) = 1
        /\ ~store[ws[s].conv_id].none
        /\ \A i \in 1..Len(store[ws[s].conv_id].messages) :
              store[ws[s].conv_id].messages[i].role = "user"

\* C15: the step in which the handler of a bound connection ends (receive
\* raised WebSocketDisconnect, or another exception left the receive loop)
\* leaves the registry without an entry for the connection's conversation id.
C15_RegistryReleasedOnDisconnect ==
    [][\A s \in Sockets :
          (ws[s].state = "open" /\ ws'[s].state = "closed")
            => registry'[ws[s].conv_id] = NoConn]_vars

\* C15 witness: one bound connection ended by a disconnect, another by an
\* exception, and the registry is empty
C15_Witness ==
    \E s1, s2 \in Sockets :
        /\ ws[s1].state = "closed" /\ ws[s1].bind = "owned" /\ ws[s1].fail = "disconnect"
        /\ ws[s2].state = "closed" /\ ws[s2].bind = "owned"
        /\ ws[s2].fail \in {"malformed", "store_user", "send"}
        /\ \A c \in ConvIds : registry[c] = NoConn

\* the connect attempt of s failed authentication or the ownership check
ConnectFailed(s) == ws[s].bind \in {"auth", "absent", "foreign"}

CallsFor(p) ==
    { i \in 1..Len(llm.calls) :
        (IF llm.calls[i].asked \in {None, ""} THEN llm.default ELSE llm.calls[i].asked) = p }

\* C17: no streaming completion call is where an unknown provider name is
\* first rejected: the call never raises the unsupported-provider error.
C17_UnknownProviderRejectedAtConstruction ==
    ~(/\ llm.stream.op = "get_client"
      /\ llm.stream.raised
      /\ \E p \in ConfiguredProviders : llm.stream.error = UnsupportedProvider(p))

\* C18: at most one client has been constructed per provider name, and
\* every successful call for a name returned the same client; a call
\* without a provider is a call for the configured default.
C18_OneClientPerProvider ==
    \A p \in ConfiguredProviders :
        /\ p \in KnownProviders => llm.built[p] <= 1
        /\ \A i, j \in CallsFor(p) :
              /\ llm.calls[i].raised = (p \notin KnownProviders)
              /\ llm.calls[i].client = llm.calls[j].client
              /\ ~llm.calls[i].raised
                    => /\ llm.calls[i].client = llm.clients[p]
                       /\ llm.calls[i].client[2] = p

\* C18 witness: three calls for one provider, by its name and through the
\* default, returned a client
C18_Witness ==
    /\ llm.default = "qwen"
    /\ Len(llm.calls) = 3
    /\ llm.calls[1].asked = None
    /\ llm.calls[2].asked = "qwen"
    /\ llm.calls[3].asked = ""
    /\ llm.calls[3].client # NoClient

\* C19: every fragment a client's stream has yielded is a non-empty text.
C19_FragmentsNonEmpty ==
    \A i \in 1..Len(llm.stream.yielded) : llm.stream.yielded[i] # EmptyText

\* the exchange of s that is over went through the except clause
EndedInError(s) == ExchangeOver(s) /\ ws[s].fail # None

\* C20: the terminal frame sent by the except clause carries an error
\* field, whatever the text of the exception.
C20_ErrorFrameHasErrorField ==
    \A s \in Sockets :
        EndedInError(s)
          => /\ frames[s][Len(frames[s])].done
             /\ frames[s][Len(frames[s])].error # NoField

\* the classify calls execute has made
ClassifyCalls == { i \in 1..Len(sup.calls) : sup.calls[i].op = "classify" }

\* the block the resolved text holds for one attachment
ResolvedPart(file_id, outcome) ==
    IF outcome.raised THEN ErrorMarker(file_id, outcome.text)
    ELSE DocumentBlock(file_id, outcome.text)

\* C21: when the document agent has resolved its attachments, the
\* completion call is made, and its user message holds, in attachment
\* order, the text of every attachment extracted and an error marker for
\* every attachment whose extraction raised.
C21_FailedAttachmentMarkedInline ==
    (sup.pc = "done" /\ LastCall.op = "task_complete"
        /\ ClassOf(LastCall.agent) = "DocumentAnalysisAgent")
      => LET att == sup.context.attachments
             oc == LastCall.outcomes
         IN /\ Len(oc) = Len(att)
            /\ LastCall.content =
                 IF att = <<>> THEN sup.input
                 ELSE <<"User Query: ">> \o sup.input \o <<"Document Content:">>
                        \o Flatten([i \in 1..Len(att) |-> ResolvedPart(att[i], oc[i])])

\* C21 witness: of two attachments the first failed and the second was
\* extracted, and the completion call was made
C21_Witness ==
    /\ sup.pc = "done"
    /\ LastCall.op = "task_complete"
    /\ LastCall.agent = "DocumentAnalysisAgent"
    /\ sup.context.attachments = <<"f1", "f2">>
    /\ LastCall.outcomes[1].raised
    /\ ~LastCall.outcomes[2].raised

\* a text that one of the task agents' except clauses returns
IsApology(text) ==
    /\ Len(text) >= 1
    /\ text[1] \in { Apology("FinancialAnalysisAgent", [text |-> EmptyText])[1],
                     Apology("DocumentAnalysisAgent", [text |-> EmptyText])[1] }

\* C22: a failure of the completion call inside a task agent is not
\* answered as a success and is not stored as an assistant message.
C22_TaskFailureIsError ==
    /\ \A r \in Requests : http[r].status = 200 => ~IsApology(http[r].content)
    /\ \A c \in ConvIds :
          ~store[c].none
            => \A i \in 1..Len(store[c].messages) :
                  ~(store[c].messages[i].role = "assistant"
                      /\ IsApology(store[c].messages[i].content))

\* C23: execute makes one classification call for one inbound message.
C23_OneRoutingDecision ==
    Cardinality(ClassifyCalls) <= 1

\* the agent of the last register call for a name, None when there is none
LastRegistered(name) ==
    LET idx == { i \in 1..Len(regs) : regs[i].name = name } IN
    IF idx = {} THEN None
    ELSE regs[CHOOSE i \in idx : \A j \in idx : j <= i].obj

\* C24: get gives the agent registered last under the name, nothing for a
\* name never registered, and list_agents has one entry for each name
\* registered, the agent registered last under it.
C24_LastRegistrationWins ==
    /\ \A name \in AgentNames \cup {"Weather"} : get(agents, name) = LastRegistered(name)
    /\ LET l == list_agents(agents) IN
       /\ Len(l) = Cardinality({ regs[i].name : i \in 1..Len(regs) })
       /\ \A i, j \in 1..Len(l) : l[i].name = l[j].name => i = j
       /\ \A i \in 1..Len(l) : l[i].obj = LastRegistered(l[i].name)

\* C24 witness: a second financial agent replaced the first and was then
\* replaced by the first again
C24_Witness ==
    /\ Len(regs) = Len(ImportRegs) + 2
    /\ regs[Len(regs) - 1].obj = "FinancialAnalysisAgent#2"
    /\ regs[Len(regs)].obj = "FinancialAnalysisAgent"
    /\ get(agents, "FinancialAnalysis") = "FinancialAnalysisAgent"

\* C27: the chunks yielded so far are one non-terminal chunk per item
\* consumed, in order; when the generator has ended they are followed by
\* one chunk with done = true, with the exception text when the iterator
\* raised; every chunk carries the message_id given.
C27_ChunksThenOneTerminal ==
    /\ \A i \in 1..Len(slr.out) : slr.out[i].message_id = slr.message_id
    /\ \A i \in 1..slr.pos :
          /\ i <= Len(slr.out)
          /\ slr.out[i] = StreamChunk(slr.items[i], FALSE, slr.message_id, None)
    /\ slr.pc = "run" => Len(slr.out) = slr.pos
    /\ slr.pc = "ended"
          => /\ slr.pos = Len(slr.items)
             /\ Len(slr.out) = Len(slr.items) + 1
             /\ slr.out[Len(slr.out)].done
             /\ slr.out[Len(slr.out)].content = EmptyText
             /\ slr.out[Len(slr.out)].error
                  = IF slr.ends = NoRaise THEN None ELSE slr.ends[1]

\* C27 witness: an iterator that raised after two items has been consumed
C27_Witness ==
    /\ slr.pc = "ended"
    /\ Len(slr.items) = 2
    /\ slr.ends = <<"boom">>
    /\ Len(slr.out) = 3

\* the items of out that come from input stream i, in the order of out
FromStream(out, i) == SelectSeq(out, LAMBDA item : item[1] = i)

\* C28: when the merge has ended, what it yielded holds the items of every
\* input stream, each once and in the order of its stream.
C28_MergeLosesNothing ==
    merge.pc = "ended"
      => /\ \A i \in 1..Len(merge.streams) : FromStream(merge.out, i) = merge.streams[i]
         /\ \A k \in 1..Len(merge.out) : merge.out[k][1] \in 1..Len(merge.streams)

\* C29: a registry entry is removed only in a step in which the handler of
\* the connection the entry names ends; the end of a connection that was
\* replaced leaves the entry of its successor in place.
C29_EntryRemovedByItsOwnChannel ==
    [][\A c \in ConvIds :
          (registry[c] # NoConn /\ registry'[c] = NoConn)
             => /\ ws[registry[c][1]].state = "open"
                /\ ws'[registry[c][1]].state = "closed"]_vars

\* C30: in every step that receives an inbound message, the history built
\* for the responder is the conversation's persisted messages at that
\* moment followed by the new user message.
C30_HistoryIsPersistedMessages ==
    [][\A s \in Sockets :
          (ws[s].pc = "receive" /\ ws'[s].pc = "stream" /\ ~store[ws[s].conv_id].none)
             => ws'[s].messages
                  = Append(RoleContent(store[ws[s].conv_id].messages),
                           [role |-> "user", content |-> ws'[s].content])]_vars

\* C25: in every step in which an exchange persists its assistant message,
\* the message it is appended after is the user message of that exchange,
\* so that a read of the history finds the two next to each other.
C25_AssistantFollowsItsUserMessage ==
    [][\A s \in Sockets :
          (ws[s].pc = "persist" /\ ws'[s].pc = "refresh" /\ ~store[ws[s].conv_id].none)
             => LET before == store[ws[s].conv_id].messages
                    after == store'[ws[s].conv_id].messages
                IN /\ Len(after) = Len(before) + 1
                   /\ after[Len(after)].role = "assistant"
                   /\ Len(before) >= 1
                   /\ before[Len(before)].role = "user"
                   /\ before[Len(before)].content = ws[s].content]_vars

\* the consumer of connection s has stopped pulling the stream of its
\* exchange before the stream ended
StoppedPulling(s) == ws[s].fail = "send" /\ ws[s].pc \in {"error", "done"}

\* C26: a chunk is taken from the stream only in a step of the loop that
\* asks for it, and when the handler of a connection has ended after a
\* failed send, the upstream call of its exchange has been released.
C26_UpstreamReleasedWhenConsumerStops ==
    \A s \in Sockets :
       (StoppedPulling(s) /\ ws[s].pc = "done") => ws[s].upstream # "open"

\* C26: after the consumer stopped pulling, no further chunk is taken from
\* the stream and no further frame is forwarded.
C26_NothingPulledAfterStop ==
    [][\A s \in Sockets :
          StoppedPulling(s) => /\ ws'[s].produced = ws[s].produced
                               /\ frames'[s] = frames[s]]_vars

\* C31: when an exchange of a connection is over because its responder
\* failed, the persisted history does not end with a user message that has
\* no reply.
C31_FailedExchangeLeavesHistory ==
    \A s \in Sockets :
       (ExchangeOver(s) /\ ws[s].fail = "upstream" /\ ~store[ws[s].conv_id].none)
          => LET msgs == store[ws[s].conv_id].messages
             IN msgs = <<>> \/ msgs[Len(msgs)].role = "assistant"

\* C32: the message list of a direct completion call is the list the
\* caller built: the history followed by the current user message, once.
C32_UserMessageOnce ==
    \A i \in 1..Len(sup.calls) :
       sup.calls[i].op = "complete" => sup.calls[i].messages = sup.given.messages

\* C33: when an exchange has persisted its assistant message, the id of
\* that message is the message_id of the exchange's frames.
C33_FrameIdIsStoredId ==
    \A s \in Sockets :
       (ws[s].pc = "refresh" /\ ~store[ws[s].conv_id].none)
          => LET msgs == store[ws[s].conv_id].messages
             IN /\ \A i \in 1..Len(ExchangeFrames(s, ws[s].message_id)) :
                      ExchangeFrames(s, ws[s].message_id)[i].message_id = ws[s].message_id
                /\ msgs # <<>>
                /\ msgs[Len(msgs)].id = ws[s].message_id

\* C34: the user of a bound chat WebSocket is one that get_current_user
\* accepts: a banned or inactive account binds no channel.
C34_BannedCannotBind ==
    \A s \in Sockets :
       ws[s].state = "open"
          => ~get_current_user([valid |-> TRUE, sub |-> ws[s].user]).raised

\* the handler of connection s, bound to conversation c as its owner,
\* takes a step
OwnerChannelStep(s, c) ==
    /\ ws[s].state = "open"
    /\ ws[s].conv_id = c
    /\ ws[s].user = store[c].user_id
    /\ HandlerStep(s)

\* what a principal holds of a conversation is its own: the conversation
\* reference of a connection, the conversation a connection is bound to,
\* and the conversation of a request that was answered 200
ReadsOwnOnly ==
    /\ \A s \in Sockets :
          /\ ~ws[s].conversation.none => ws[s].conversation.user_id = ws[s].user
          /\ (ws[s].state = "open" /\ ~store[ws[s].conv_id].none)
                => store[ws[s].conv_id].user_id = ws[s].user
    /\ \A r \in Requests : http[r].status = 200 => http[r].kind = "owned"

\* C35: every step that changes a conversation (appends a message or
\* deletes it) is a step of a connection or request authenticated as the
\* conversation's owner, and what a principal reads is a conversation of
\* its own.
C35_OnlyOwnerTouches ==
    /\ [][\A c \in ConvIds :
            store'[c] # store[c]
               => \/ \E s \in Sockets : OwnerChannelStep(s, c)
                  \/ \E r \in Requests :
                        HttpSendMessage(r, [valid |-> TRUE, sub |-> store[c].user_id], c)
                  \/ DeleteConversation(store[c].user_id, c)]_vars
    /\ []ReadsOwnOnly

\* C35 witness: u1 posted to u2's conversation and got 404, while the
\* conversations hold what their owners' exchanges appended
C35_Witness ==
    /\ http["r1"].status = 404
    /\ http["r1"].kind = "foreign"
    /\ \E c \in ConvIds : ~store[c].none /\ Len(store[c].messages) >= 2
    /\ ws["s1"].bind = "owned"

\* C36: when the responder stream of an exchange has ended, by completing
\* or by raising, and the client stays, the exchange's terminal frame has
\* eventually been sent and the handler waits for the next inbound message.
C36_ExchangeReturnsToReceive ==
    \A s \in {"s1"} :
       (ws[s].pc \in {"persist", "error"} /\ ~ws[s].clientGone)
          ~> \/ ws[s].clientGone
             \/ /\ ws[s].pc = "receive"
                /\ ws[s].state = "open"
                /\ TerminalFrames(s, ws[s].message_id) # <<>>

\* C36 witness: the stream of the second exchange raised after a fragment,
\* the error frame was sent and the handler is back at receive
C36_Witness ==
    /\ ws["s1"].pc = "receive"
    /\ ws["s1"].state = "open"
    /\ ~ws["s1"].clientGone
    /\ ws["s1"].n = 2
    /\ ws["s1"].fail = "upstream"
    /\ Len(ws["s1"].produced) = 1
    /\ TerminalFrames("s1", ws["s1"].message_id) # <<>>

\* C37: verify_captcha returns True only for an id that was stored and not
\* expired, with a code equal up to case; a call on a stored id leaves the
\* id removed; no later call with that id returns True.
C37_CaptchaUsableOnce ==
    /\ \A i \in 1..Len(captcha.log) :
          LET e == captcha.log[i] IN
          /\ e.result => /\ ~e.before.none
                         /\ e.now <= e.before.expires_at
                         /\ upper(e.before.code) = upper(e.code)
          /\ ~e.before.none => e.after.none
    /\ \A i, j \in 1..Len(captcha.log) :
          (i < j /\ captcha.log[i].captcha_id = captcha.log[j].captcha_id
                 /\ ~captcha.log[i].before.none)
             => ~captcha.log[j].result

\* C37 witness: a wrong code was given for a stored captcha, then the code
\* of the image in lower case for the same id, which is refused
C37_Witness ==
    /\ Len(captcha.log) = 2
    /\ captcha.log[1].captcha_id = captcha.log[2].captcha_id
    /\ ~captcha.log[1].before.none
    /\ upper(captcha.log[1].before.code) # upper(captcha.log[1].code)
    /\ upper(captcha.log[1].before.code) = upper(captcha.log[2].code)
    /\ captcha.log[2].code # captcha.log[1].before.code
    /\ ~captcha.log[2].result

\* C38: process_file on the file id of a saved text attachment whose bytes
\* are UTF-8 gives the saved bytes decoded as UTF-8.
C38_TextRoundTrip ==
    (/\ ~disk.last.none
     /\ disk.last.saved.exists
     /\ lower(disk.last.file_id.ext) \in {"txt", "md", "json"}
     /\ decode_utf8(disk.last.saved.content).kind = "text")
       => disk.last.result = decode_utf8(disk.last.saved.content)

=============================================================================
